---- MODULE Spec2Model ----
(***************************************************************************)
(* Model of bof-kit: the bof-check front end (src/bin/bof-check.rs) and    *)
(* the analysis it calls (src/lib.rs): parse, check_all, check_arch,       *)
(* check_entrypoint and check_imports.                                     *)
(*                                                                         *)
(* The COFF decoder (goblin's Coff::parse and Symbol::name) is a library   *)
(* outside the repository.  Its results are the input of the model: a      *)
(* buffer either decodes to a header machine code and a symbol table or    *)
(* does not, and every symbol's name either resolves to a string or does   *)
(* not.  Names are TLA+ strings handled character by character with Len    *)
(* and SubSeq, so prefixes, separators and suffixes are computed the way   *)
(* the Rust string functions compute them.                                 *)
(***************************************************************************)
EXTENDS Integers, Sequences, FiniteSets, TLC

VARIABLES
    file,      \* the input: what fs::read and Coff::parse make of the path
    pc,        \* position in main -> parse -> check_all -> ...
    i,         \* index of the next symbol of the iterator in progress
    prefix,    \* check_imports' local `prefix` ("" before it is selected)
    found,     \* result of check_entrypoint's any(), FALSE before it ran
    stdout,    \* the lines printed so far, as records (see Line)
    exitCode,  \* -1 while running, then the process exit status
    panicMsg,  \* "" or the message of the panic that ended the process
    completed  \* history: the steps that ran to their end, in order

vars == <<file, pc, i, prefix, found, stdout, exitCode, panicMsg, completed>>

----------------------------------------------------------------------------
(* Bounds of the model *)

MaxSyms == 3

----------------------------------------------------------------------------
(* Program constants *)

IMAGE_FILE_MACHINE_I386 == 332       \* 0x014c
IMAGE_FILE_MACHINE_AMD64 == 34404    \* 0x8664
IMAGE_FILE_MACHINE_ARM64 == 43620    \* 0xaa64

\* a machine code the program has no constant for (IMAGE_FILE_MACHINE_ARM)
OtherMachine == 448

BEACON_ENTRYPOINT == "go"

BEACON_EXPORTS ==
    { "BeaconDataParse", "BeaconDataInt", "BeaconDataShort",
      "BeaconDataLength", "BeaconDataExtract",
      "BeaconFormatAlloc", "BeaconFormatReset", "BeaconFormatFree",
      "BeaconFormatAppend", "BeaconFormatPrintf", "BeaconFormatToString",
      "BeaconFormatInt",
      "BeaconPrintf", "BeaconOutput",
      "BeaconUseToken", "BeaconRevertToken", "BeaconIsAdmin",
      "BeaconGetSpawnTo", "BeaconInjectProcess",
      "BeaconInjectTemporaryProcess", "BeaconCleanupProcess",
      "toWideChar" }

WIN32_BUILTIN ==
    { "GetProcAddress", "LoadLibraryA", "GetModuleHandle", "FreeLibrary" }

WIN32_MODULES ==
    { "NTDLL", "KERNEL32", "KERNELBASE", "GDI32", "USER32", "COMCTL32",
      "COMDLG32", "WS2_32", "ADVAPI32", "NETAPI32", "OLE32", "MSVCRT",
      "BASESRV", "CSRSRV", "WINSRV", "WININET" }

\* exit status of a Rust process that returns from main / that panics
EXIT_OK == 0
EXIT_PANIC == 101

----------------------------------------------------------------------------
(* Rust string functions used by the program *)

\* str::starts_with
starts_with(s, p) ==
    /\ Len(s) >= Len(p)
    /\ SubSeq(s, 1, Len(p)) = p

\* str::strip_prefix(p).unwrap(): the text after one leading occurrence of p
strip_prefix(s, p) ==
    SubSeq(s, Len(p) + 1, Len(s))

\* index of the first occurrence of the character c in s, 0 when absent
find(s, c) ==
    IF \E k \in 1..Len(s) : SubSeq(s, k, k) = c
    THEN CHOOSE k \in 1..Len(s) :
            /\ SubSeq(s, k, k) = c
            /\ \A j \in 1..(k - 1) : SubSeq(s, j, j) # c
    ELSE 0

\* str::split(c): the pieces of s between the occurrences of c, in order
RECURSIVE split(_, _)
split(s, c) ==
    LET k == find(s, c)
    IN  IF k = 0
        THEN <<s>>
        ELSE <<SubSeq(s, 1, k - 1)>> \o split(SubSeq(s, k + 1, Len(s)), c)

\* next_tuple as a variant that wants exactly two items
next_tuple_exactly_two(items) ==
    IF Len(items) = 2
    THEN [some |-> TRUE, a |-> items[1], b |-> items[2]]
    ELSE [some |-> FALSE, a |-> "", b |-> ""]

\* Itertools::next_tuple::<(_, _)>(): the first two items, if there are two
next_tuple(items) ==
    IF Len(items) >= 2
    THEN [some |-> TRUE, a |-> items[1], b |-> items[2]]
    ELSE [some |-> FALSE, a |-> "", b |-> ""]

----------------------------------------------------------------------------
(* The input *)

SymbolNames ==
    { "go",
      "gox",
      "__imp_BeaconPrintf",
      "__imp_GetProcAddress",
      "__imp_KERNEL32$LoadLibraryA@4",
      "__imp__KERNEL32$LoadLibraryA@4",
      "__imp_KERNEL32$A$B",
      "__imp_KERNEL32$A@b",
      "__imp_kernel32$Sleep",
      "__imp_FOO$Bar",
      "__imp_SomethingElse" }

\* a symbol record as Symbol::name sees it: Ok(name) or Err
Symbols ==
    { [resolves |-> TRUE, name |-> n] : n \in SymbolNames }
        \cup { [resolves |-> FALSE, name |-> ""] }

SymbolTables == UNION { [1..n -> Symbols] : n \in 0..MaxSyms }

Machines ==
    { IMAGE_FILE_MACHINE_I386, IMAGE_FILE_MACHINE_AMD64,
      IMAGE_FILE_MACHINE_ARM64, OtherMachine }

Files ==
    { [readable |-> FALSE, valid |-> FALSE, machine |-> 0, symbols |-> <<>>],
      [readable |-> TRUE, valid |-> FALSE, machine |-> 0, symbols |-> <<>>] }
        \cup { [readable |-> TRUE, valid |-> TRUE, machine |-> m, symbols |-> t] :
                  m \in Machines, t \in SymbolTables }

----------------------------------------------------------------------------
(* Output *)

\* one printed line: what it is about, the symbol record it comes from
\* (0 when none), the import name and the parts check_imports split it in,
\* and the text
Line(kind, idx, name, module, function, text) ==
    [kind |-> kind, idx |-> idx, name |-> name,
     module |-> module, function |-> function, text |-> text]

Plain(kind, text) == Line(kind, 0, "", "", "", text)

\* panic!() or a failed unwrap()/expect(): the process ends with status 101
Panic(msg) ==
    /\ pc' = "exited"
    /\ exitCode' = EXIT_PANIC
    /\ panicMsg' = msg
    /\ UNCHANGED completed

----------------------------------------------------------------------------
(* Decisions of the code that the actions use *)

\* import_prefix as a variant with the x86 prefix in both arms
import_prefix_same(machine) ==
    IF machine = IMAGE_FILE_MACHINE_I386 THEN "__imp__"
    ELSE IF machine = IMAGE_FILE_MACHINE_AMD64 THEN "__imp__"
    ELSE ""

\* the match on coff.header.machine that selects the import prefix;
\* "" stands for the arm that panics
import_prefix(machine) ==
    IF machine = IMAGE_FILE_MACHINE_I386 THEN "__imp__"
    ELSE IF machine = IMAGE_FILE_MACHINE_AMD64 THEN "__imp_"
    ELSE ""

\* check_arch's match; "" stands for the arm that panics
arch_name(machine) ==
    IF machine = IMAGE_FILE_MACHINE_I386 THEN "x86"
    ELSE IF machine = IMAGE_FILE_MACHINE_AMD64 THEN "x64"
    ELSE IF machine = IMAGE_FILE_MACHINE_ARM64 THEN "aarch64"
    ELSE ""

\* is_entrypoint as a variant that accepts any name beginning with "go"
is_entrypoint_prefix(s) == starts_with(s, BEACON_ENTRYPOINT)

\* the closure of any() in check_entrypoint
is_entrypoint(s) == s = BEACON_ENTRYPOINT

\* the body of for_each in check_imports: the line printed for one
\* stripped import name
classify(idx, name) ==
    IF name \in BEACON_EXPORTS
    THEN Line("beacon export", idx, name, "", "",
              "[+] beacon export: " \o name)
    ELSE IF name \in WIN32_BUILTIN
    THEN Line("beacon win32 builtin", idx, name, "", "",
              "[+] beacon win32 builtin: " \o name)
    ELSE LET t == next_tuple(split(name, "$"))
         IN  IF t.some
             THEN LET module == t.a
                      function == split(t.b, "@")[1]
                  IN  IF module \in WIN32_MODULES
                      THEN Line("dynamic function resolution", idx, name,
                                module, function,
                                "[+] dynamic function resolution: "
                                    \o module \o "$" \o function)
                      ELSE Line("unrecognized win32 library", idx, name,
                                module, function,
                                "[!] unrecognized win32 library: " \o name)
             ELSE Line("unknown import", idx, name, "", "",
                       "[!] unknown import: " \o name)

\* visit as a variant that prints a name only the first time it is met
visit_dedup(out, idx, sym_name, p) ==
    IF /\ starts_with(sym_name, p)
       /\ \A k \in DOMAIN out : out[k].name # strip_prefix(sym_name, p)
    THEN Append(out, classify(idx, strip_prefix(sym_name, p)))
    ELSE out

\* one resolved symbol name through filter_map and for_each in
\* check_imports: names without the prefix are dropped, the others are
\* stripped, classified and printed
visit(out, idx, sym_name, p) ==
    IF starts_with(sym_name, p)
    THEN Append(out, classify(idx, strip_prefix(sym_name, p)))
    ELSE out

\* Bof::imports: the symbols whose name starts with the import prefix
Bof_imports(coff) ==
    SelectSeq(coff.symbols,
              LAMBDA sym : starts_with(sym.name, import_prefix(coff.machine)))

\* check_all_next as a variant that calls check_imports before
\* check_entrypoint
check_all_next_swapped(step) ==
    CASE step = "check_arch" -> "check_imports"
      [] step = "check_imports" -> "check_entrypoint"
      [] step = "check_entrypoint" -> "main_done"

\* the order of the calls in check_all, then the return to main:
\* the step that follows the step that just completed
check_all_next(step) ==
    CASE step = "check_arch" -> "check_entrypoint"
      [] step = "check_entrypoint" -> "check_imports"
      [] step = "check_imports" -> "main_done"

----------------------------------------------------------------------------
(* The program *)

Init ==
    /\ file \in Files
    /\ pc = "main"
    /\ i = 1
    /\ prefix = ""
    /\ found = FALSE
    /\ stdout = <<>>
    /\ exitCode = -1
    /\ panicMsg = ""
    /\ completed = <<>>

\* main: fs::read(..).unwrap(), the "[*] Parsing" line, the call of parse
Main ==
    /\ pc = "main"
    /\ IF file.readable
       THEN /\ stdout' = Append(stdout, Plain("parsing", "[*] Parsing"))
            /\ pc' = "parse"
            /\ completed' = Append(completed, "read")
            /\ UNCHANGED <<exitCode, panicMsg>>
       ELSE /\ Panic("called Result::unwrap() on an Err value")
            /\ UNCHANGED stdout
    /\ UNCHANGED <<file, i, prefix, found>>

\* parse: Coff::parse, then check_all or the two lines about the failure
Parse ==
    /\ pc = "parse"
    /\ IF file.valid
       THEN /\ pc' = "check_arch"
            /\ completed' = Append(completed, "parse")
            /\ UNCHANGED stdout
       ELSE /\ stdout' = stdout \o
                  << Plain("parse failure", "[!] Failed to parse input as COFF file"),
                     Plain("parse failure", " -> Error: ") >>
            /\ pc' = "main_done"
            /\ UNCHANGED completed
    /\ UNCHANGED <<file, i, prefix, found, exitCode, panicMsg>>

CheckArch ==
    /\ pc = "check_arch"
    /\ LET arch == arch_name(file.machine)
       IN  IF arch # ""
           THEN /\ stdout' = Append(stdout,
                        Plain("arch", "[+] machine arch: " \o arch))
                /\ pc' = check_all_next("check_arch")
                /\ completed' = Append(completed, "check_arch")
                /\ UNCHANGED <<exitCode, panicMsg>>
           ELSE /\ Panic("Unsupported machine type")
                /\ UNCHANGED stdout
    /\ UNCHANGED <<file, i, prefix, found>>

\* check_entrypoint: any() pulls one symbol, resolves its name and tests it;
\* it stops at the first match
CheckEntrypointNext ==
    /\ pc = "check_entrypoint"
    /\ i <= Len(file.symbols)
    /\ LET sym == file.symbols[i]
       IN  IF ~sym.resolves
           THEN /\ Panic("Unable to read symbol name")
                /\ UNCHANGED <<stdout, i, found>>
           ELSE IF is_entrypoint(sym.name)
           THEN /\ found' = TRUE
                /\ stdout' = Append(stdout,
                        Plain("entrypoint", "[+] entrypoint: "
                                \o BEACON_ENTRYPOINT \o "()"))
                /\ pc' = check_all_next("check_entrypoint")
                /\ completed' = Append(completed, "check_entrypoint")
                /\ i' = 1
                /\ UNCHANGED <<exitCode, panicMsg>>
           ELSE /\ i' = i + 1
                /\ UNCHANGED <<pc, stdout, found, exitCode, panicMsg, completed>>
    /\ UNCHANGED <<file, prefix>>

\* check_entrypoint: the iterator is exhausted, any() is false
CheckEntrypointEnd ==
    /\ pc = "check_entrypoint"
    /\ i > Len(file.symbols)
    /\ stdout' = Append(stdout,
            Plain("entrypoint not found", "[!] entrypoint not found: "
                    \o BEACON_ENTRYPOINT))
    /\ pc' = check_all_next("check_entrypoint")
    /\ completed' = Append(completed, "check_entrypoint")
    /\ i' = 1
    /\ UNCHANGED <<file, prefix, found, exitCode, panicMsg>>

\* check_imports: the match that sets `prefix`
CheckImportsPrefix ==
    /\ pc = "check_imports"
    /\ prefix = ""
    /\ LET p == import_prefix(file.machine)
       IN  IF p # ""
           THEN /\ prefix' = p
                /\ UNCHANGED <<pc, exitCode, panicMsg, completed>>
           ELSE /\ Panic("Unsupported machine type")
                /\ UNCHANGED prefix
    /\ UNCHANGED <<file, i, found, stdout>>

\* check_imports: one symbol through map, filter_map and for_each
CheckImportsNext ==
    /\ pc = "check_imports"
    /\ prefix # ""
    /\ i <= Len(file.symbols)
    /\ LET sym == file.symbols[i]
       IN  IF ~sym.resolves
           THEN /\ Panic("Unable to read symbol name")
                /\ UNCHANGED <<stdout, i>>
           ELSE /\ stdout' = visit(stdout, i, sym.name, prefix)
                /\ i' = i + 1
                /\ UNCHANGED <<pc, exitCode, panicMsg, completed>>
    /\ UNCHANGED <<file, prefix, found>>

\* check_imports: the iterator is exhausted; check_imports returns
CheckImportsEnd ==
    /\ pc = "check_imports"
    /\ prefix # ""
    /\ i > Len(file.symbols)
    /\ pc' = check_all_next("check_imports")
    /\ completed' = Append(completed, "check_imports")
    /\ i' = 1
    /\ UNCHANGED <<file, prefix, found, stdout, exitCode, panicMsg>>

\* main: the "[*] Done!" line and the return from main
MainDone ==
    /\ pc = "main_done"
    /\ stdout' = Append(stdout, Plain("done", "[*] Done!"))
    /\ pc' = "exited"
    /\ exitCode' = EXIT_OK
    /\ UNCHANGED <<file, i, prefix, found, panicMsg, completed>>

Next ==
    \/ Main
    \/ Parse
    \/ CheckArch
    \/ CheckEntrypointNext
    \/ CheckEntrypointEnd
    \/ CheckImportsPrefix
    \/ CheckImportsNext
    \/ CheckImportsEnd
    \/ MainDone

Spec == Init /\ [][Next]_vars

----------------------------------------------------------------------------
(* Vocabulary of the properties *)

ImportKinds ==
    { "beacon export", "beacon win32 builtin", "dynamic function resolution",
      "unrecognized win32 library", "unknown import" }

FindingKinds == ImportKinds \cup { "arch", "entrypoint", "entrypoint not found" }

\* the lines about imports, in the order they were printed
ImportLines == SelectSeq(stdout, LAMBDA l : l.kind \in ImportKinds)

HasLine(kinds) == \E k \in DOMAIN stdout : stdout[k].kind \in kinds

\* the run hit one of the failures: the buffer is no object file, or the
\* process panicked
Failed == (file.readable /\ ~file.valid) \/ panicMsg # ""

Supported == { IMAGE_FILE_MACHINE_I386, IMAGE_FILE_MACHINE_AMD64 }

AllResolve == \A k \in DOMAIN file.symbols : file.symbols[k].resolves

\* p is a prefix of s
IsPrefixOf(p, s) == \E n \in 0..Len(s) : SubSeq(s, 1, n) = p

HasChar(s, c) == \E k \in 1..Len(s) : SubSeq(s, k, k) = c

\* position of the first c in s (s contains c)
FirstPos(s, c) ==
    CHOOSE k \in 1..Len(s) :
        SubSeq(s, k, k) = c /\ ~HasChar(SubSeq(s, 1, k - 1), c)

TextBefore(s, c) == SubSeq(s, 1, FirstPos(s, c) - 1)

TextAfter(s, c) == SubSeq(s, FirstPos(s, c) + 1, Len(s))

Digits == { "0", "1", "2", "3", "4", "5", "6", "7", "8", "9" }

\* r without a trailing "@" followed by one or more digits, r when it has none
WithoutStdcallSuffix(r) ==
    LET cut == { k \in 1..(Len(r) - 1) :
                    /\ SubSeq(r, k, k) = "@"
                    /\ \A j \in (k + 1)..Len(r) : SubSeq(r, j, j) \in Digits }
    IN  IF cut = {} THEN r
        ELSE SubSeq(r, 1, (CHOOSE k \in cut : TRUE) - 1)

\* the symbols check_imports has gone through so far: all of them once it
\* completed, those before its iterator's position once it has its prefix
\* (also when it panicked there), none before
Visited ==
    IF "check_imports" \in { completed[k] : k \in DOMAIN completed }
    THEN 1..Len(file.symbols)
    ELSE IF prefix # "" THEN 1..(i - 1)
    ELSE {}

\* the records among those whose name carries the prefix of the machine
PrefixedIn(range) ==
    { k \in range :
        /\ file.symbols[k].resolves
        /\ \/ /\ file.machine = IMAGE_FILE_MACHINE_I386
              /\ IsPrefixOf("__imp__", file.symbols[k].name)
           \/ /\ file.machine = IMAGE_FILE_MACHINE_AMD64
              /\ IsPrefixOf("__imp_", file.symbols[k].name) }

StepOrder == << "read", "parse", "check_arch", "check_entrypoint", "check_imports" >>

----------------------------------------------------------------------------
(* Properties *)

\* C1: for every machine code other than 0x014c and 0x8664 (0xaa64
\* included) import classification fails with a declared error and never
\* with a panic, and no symbol is classified.
C1_UnsupportedIsDeclaredError ==
    (file.valid /\ file.machine \notin Supported)
        => (panicMsg = "" /\ ~HasLine(ImportKinds))

\* C2: when a step of the run fails, no partial report is produced: no
\* architecture, entrypoint or import finding is printed for that run.
C2_NoPartialReport ==
    Failed => ~HasLine(FindingKinds)

\* C3: the front end exits with zero exactly when the analysis succeeded;
\* a buffer that does not parse never ends in a zero exit.
C3_ExitCodeTellsFailure ==
    pc = "exited" => (exitCode = 0 <=> ~Failed /\ file.readable)

C5_TieredClassification ==
    \A k \in DOMAIN stdout :
        LET l == stdout[k]
        IN  l.idx > 0 =>
              /\ l.kind \in ImportKinds
              /\ l.kind = "beacon export" <=> l.name \in BEACON_EXPORTS
              /\ l.kind = "beacon win32 builtin" <=>
                    (l.name \notin BEACON_EXPORTS /\ l.name \in WIN32_BUILTIN)
              /\ l.kind = "dynamic function resolution" <=>
                    /\ l.name \notin BEACON_EXPORTS \cup WIN32_BUILTIN
                    /\ HasChar(l.name, "$")
                    /\ TextBefore(l.name, "$") \in WIN32_MODULES
              /\ l.kind = "unrecognized win32 library" <=>
                    /\ l.name \notin BEACON_EXPORTS \cup WIN32_BUILTIN
                    /\ HasChar(l.name, "$")
                    /\ TextBefore(l.name, "$") \notin WIN32_MODULES
              /\ l.kind = "unknown import" <=>
                    /\ l.name \notin BEACON_EXPORTS \cup WIN32_BUILTIN
                    /\ ~HasChar(l.name, "$")

C5_Witness ==
    /\ pc = "exited"
    /\ exitCode = EXIT_OK
    /\ \E a, b, c \in DOMAIN stdout :
          /\ stdout[a].kind = "beacon win32 builtin"
          /\ stdout[b].kind = "unrecognized win32 library"
          /\ stdout[b].name = "kernel32$Sleep"
          /\ stdout[c].kind = "dynamic function resolution"
          /\ stdout[c].name = "KERNEL32$A$B"

\* C6: for a name with a "$" that is in neither table, module is the text
\* before the "$" and function is the whole remainder after it with only
\* an "@"-and-digits suffix removed.
C6_FunctionIsRemainder ==
    \A k \in DOMAIN stdout :
        LET l == stdout[k]
        IN  l.kind \in {"dynamic function resolution", "unrecognized win32 library"}
              => /\ l.module = TextBefore(l.name, "$")
                 /\ l.function = WithoutStdcallSuffix(TextAfter(l.name, "$"))

\* C7: the prefix is "__imp__" for 0x014c and "__imp_" for 0x8664; the
\* classified imports are exactly the symbols whose name starts with the
\* prefix, and each candidate name is the symbol name with the prefix
\* removed once from the front.
C7_PrefixFilterStrip ==
    /\ prefix # "" =>
          /\ file.machine = IMAGE_FILE_MACHINE_I386 => prefix = "__imp__"
          /\ file.machine = IMAGE_FILE_MACHINE_AMD64 => prefix = "__imp_"
          /\ file.machine \in Supported
    /\ { stdout[k].idx : k \in { n \in DOMAIN stdout : stdout[n].idx > 0 } }
          = PrefixedIn(Visited)
    /\ \A k \in DOMAIN stdout :
          stdout[k].idx > 0 =>
              file.symbols[stdout[k].idx].name = prefix \o stdout[k].name
    /\ (pc = "exited" /\ exitCode = EXIT_OK /\ file.valid) =>
          Len(ImportLines) = Len(Bof_imports(file))

C7_Witness ==
    /\ pc = "exited"
    /\ exitCode = EXIT_OK
    /\ file.machine = IMAGE_FILE_MACHINE_AMD64
    /\ \E a, b \in DOMAIN file.symbols :
          /\ file.symbols[a].name = "__imp__KERNEL32$LoadLibraryA@4"
          /\ file.symbols[b].name = "gox"
    /\ \E k \in DOMAIN stdout : stdout[k].name = "_KERNEL32$LoadLibraryA@4"

\* C8: a symbol name that does not resolve, met by the entrypoint check or
\* by import classification, is reported as a declared error and ends the
\* run without a panic.
C8_NameFailureIsDeclaredError ==
    (file.valid /\ ~AllResolve) => panicMsg # "Unable to read symbol name"

\* C9: the entrypoint is reported found iff some symbol's name is exactly
\* "go"; when it is absent the run is not aborted: check_imports follows
\* and the imports of the file are all classified.
C9_EntrypointExact ==
    /\ HasLine({"entrypoint"}) =>
          /\ found
          /\ \E k \in DOMAIN file.symbols : file.symbols[k].name = "go"
    /\ HasLine({"entrypoint not found"}) =>
          /\ ~found
          /\ \A k \in DOMAIN file.symbols : file.symbols[k].name # "go"
          /\ Len(completed) >= 4
          /\ (pc = "exited" /\ file.machine \in Supported) =>
                /\ exitCode = EXIT_OK
                /\ Len(ImportLines) = Cardinality(PrefixedIn(DOMAIN file.symbols))

C9_Witness ==
    /\ pc = "exited"
    /\ HasLine({"entrypoint not found"})
    /\ \E k \in DOMAIN file.symbols : file.symbols[k].name = "gox"
    /\ Len(ImportLines) >= 2

\* C10: the classified imports are the prefixed symbols in symbol-table
\* order, one entry per record: none twice, none skipped, and two records
\* with the same name give two entries.
C10_OrderedOncePerRecord ==
    /\ \A a, b \in DOMAIN ImportLines :
          a < b => ImportLines[a].idx < ImportLines[b].idx
    /\ Len(ImportLines) = Cardinality(PrefixedIn(Visited))
    /\ \A a \in DOMAIN ImportLines : ImportLines[a].idx \in PrefixedIn(Visited)

C10_Witness ==
    /\ pc = "exited"
    /\ exitCode = EXIT_OK
    /\ Len(file.symbols) = 3
    /\ Len(ImportLines) = 2
    /\ ImportLines[1].name = ImportLines[2].name
    /\ ImportLines[1].idx = 1
    /\ ImportLines[2].idx = 3

====
